---- MODULE Spec2Model ----
(***************************************************************************)
(* magic_enum: the definition namespace that collects the names mentioned  *)
(* in a class body, the metaclass that turns it into an enum type, and the *)
(* protocol of the built type and of its constants.                        *)
(*                                                                         *)
(* Python strings are sequences of pieces: a name is a sequence of         *)
(* characters, a formatted string is the concatenation of its pieces.      *)
(* A Python dict is a sequence of entries in insertion order; storing      *)
(* under a key that is present replaces the entry in place.                *)
(***************************************************************************)
EXTENDS Integers, Sequences, FiniteSets, TLC

\* Ordinals the class bodies of one program may draw from their counters.
MaxMentions == 3
\* Integer literals an author assigns are 1 .. MaxInt.
MaxInt == 2

VARIABLES
    namespace,  \* EnumDefaultNamespace.namespace of the body being executed
    sequence,   \* EnumDefaultNamespace.sequence: the next value of itercount()
    body,       \* index of the class statement being executed, 0 when none is
    types,      \* the classes MetaEnum.__new__ has returned, in creation order
    assigned,   \* per class, the keys whose latest mention in its body assigned
    stray,      \* the instance the caller made by calling a class, or None
    scan,       \* the running __next__: its self, its cycle, its window
    result      \* the last call and its outcome

vars == <<namespace, sequence, body, types, assigned, stray, scan, result>>

------------------------------------------------------------------------------
(* Values *)

NoneV == [k |-> "none", n |-> 0, items |-> <<>>]
IntV(i) == [k |-> "int", n |-> i, items |-> <<>>]
\* An instance of a user class without ordering (testing.py: Letter).
ObjV == [k |-> "obj", n |-> 0, items |-> <<>>]
StrV == [k |-> "str", n |-> 0, items |-> <<>>]
TupleV(elems) == [k |-> "tuple", n |-> 0, items |-> elems]
\* A NameValue tuple used as a value: the placeholder a bare name evaluates to.
NameValueV(implicit_value) ==
    [k |-> "namevalue", n |-> implicit_value, items |-> <<>>]

\* The right-hand sides an author writes.
Literals ==
    {NoneV, ObjV, TupleV(<<IntV(1)>>)} \cup {IntV(i) : i \in 1 .. MaxInt}

Letters == <<"a", "b", "c", "d", "e", "f">>
MemberName(i) == <<Letters[i]>>
ModuleKey == <<"_", "_", "module", "_", "_">>
QualnameKey == <<"_", "_", "qualname", "_", "_">>
NameKey == <<"_", "_", "name", "_", "_">>
MembersKey == <<"_", "members">>
TagKey == <<"_", "tag">>

\* The class statements of the program, by class name.
Statements == << <<"C", "o", "l", "o", "u", "r">>,
                 <<"T", "r", "a", "f", "f", "i", "c">> >>

is_special(name) == Len(name) > 0 /\ name[1] = "_"

------------------------------------------------------------------------------
(* dict *)

DictHas(d, key) == \E i \in 1 .. Len(d) : d[i].key = key
DictIndex(d, key) == CHOOSE i \in 1 .. Len(d) : d[i].key = key
DictGet(d, key) == d[DictIndex(d, key)]
DictSet(d, e) ==
    IF DictHas(d, e.key)
    THEN [d EXCEPT ![DictIndex(d, e.key)] = e]
    ELSE Append(d, e)
DictKeys(d) == [i \in 1 .. Len(d) |-> d[i].key]

------------------------------------------------------------------------------
(* The frame enclosing the class statement *)

\* testing.py declares its enums at module level and inside a test function
\* whose local is t; k stands for a module-level binding.
f_locals == << [key |-> <<"t">>, value |-> ObjV] >>
f_globals == << [key |-> NameKey, value |-> StrV],
                [key |-> <<"k">>, value |-> IntV(1)] >>

------------------------------------------------------------------------------
(* EnumDefaultNamespace *)

NameValue(name, value, implicit_value) ==
    [key |-> name, isnv |-> TRUE, value |-> value,
     implicit_value |-> implicit_value]
Raw(key, value) ==
    [key |-> key, isnv |-> FALSE, value |-> value, implicit_value |-> -1]

Unwrap(value) ==
    IF value.k = "tuple" /\ Len(value.items) = 1 THEN value.items[1] ELSE value

\* __setitem__: the namespace and the counter after self[key] = value.
NsSetItem(ns, seq, key, value) ==
    IF is_special(key)
    THEN [namespace |-> DictSet(ns, Raw(key, value)), sequence |-> seq]
    ELSE [namespace |-> DictSet(ns, NameValue(key, Unwrap(value), seq)),
          sequence |-> seq + 1]

\* __getitem__: the namespace, the counter and the returned value of self[key].
NsGetItem(ns, seq, key) ==
    IF DictHas(f_locals, key)
    THEN [namespace |-> ns, sequence |-> seq,
          out |-> DictGet(f_locals, key).value]
    ELSE IF DictHas(f_globals, key)
    THEN [namespace |-> ns, sequence |-> seq,
          out |-> DictGet(f_globals, key).value]
    ELSE [namespace |-> DictSet(ns, NameValue(key, NoneV, seq)),
          sequence |-> seq + 1,
          out |-> NameValueV(seq)]

------------------------------------------------------------------------------
(* EnumConstant *)

\* __init__: the instance allocated as object number id of class number type.
EnumConstant(id, type, name, enum, value, implicit_value) ==
    [id |-> id, type |-> type, name |-> name, enum_name |-> enum,
     value |-> value, implicit |-> (value = NoneV),
     implicit_value |-> implicit_value]

\* The object None, as the sliding window of __next__ compares it.
NoneObject == EnumConstant(0, 0, <<>>, <<>>, NoneV, -1)

\* A variant of __eq__ that compares what the constants hold, not which
\* objects they are.
EqStructural(self, other) ==
    self.name = other.name /\ self.value = other.value

\* __eq__
Eq(self, other) == self.id = other.id

\* __lt__: raised is TRUE when the comparison of the values is a TypeError.
Lt(self, other) ==
    IF self.value.k = "int"
    THEN IF other.value.k = "int"
         THEN [raised |-> FALSE, v |-> self.value.n < other.value.n]
         ELSE [raised |-> TRUE, v |-> FALSE]
    ELSE [raised |-> FALSE, v |-> self.implicit_value < other.implicit_value]

\* total_ordering: __gt__ is "not self < other and self != other".
Gt(self, other) ==
    LET lt == Lt(self, other)
    IN  IF lt.raised THEN lt
        ELSE [raised |-> FALSE, v |-> ~lt.v /\ ~Eq(self, other)]

RECURSIVE Repr(_)
Repr(value) ==
    CASE value.k = "none" -> <<"None">>
      [] value.k = "int" -> <<ToString(value.n)>>
      [] value.k = "obj" -> <<"Letter('A')">>
      [] value.k = "str" -> <<"'__main__'">>
      [] value.k = "namevalue" -> <<"NameValue(...)">>
      [] value.k = "tuple" ->
            IF Len(value.items) = 1
            THEN <<"(">> \o Repr(value.items[1]) \o <<",)">>
            ELSE <<"(...)">>

\* __str__
Str(self) ==
    LET display == self.enum_name \o <<".">> \o self.name
    IN  IF ~self.implicit
        THEN display \o <<"(value=">> \o Repr(self.value) \o <<")">>
        ELSE display

------------------------------------------------------------------------------
(* sorted(), as list.sort runs on a list shorter than 64: the leading run is *)
(* found by comparing neighbours, reversed when it descends, and every later *)
(* element is placed by a binary search. A comparison that raises ends it.   *)

Reverse(s) == [i \in 1 .. Len(s) |-> s[Len(s) + 1 - i]]

\* Length of the run s[1 .. n] extended while each element keeps the
\* direction desc against its predecessor; 0 when a comparison raises.
RECURSIVE RunLength(_, _, _)
RunLength(s, n, desc) ==
    IF n = Len(s) THEN n
    ELSE LET lt == Lt(s[n + 1], s[n])
         IN  IF lt.raised THEN 0
             ELSE IF lt.v = desc THEN RunLength(s, n + 1, desc)
             ELSE n

\* The insertion point of pivot in s[l + 1 .. r], -1 when a comparison raises.
RECURSIVE Bisect(_, _, _, _)
Bisect(s, pivot, l, r) ==
    LET p == l + ((r - l) \div 2)
        lt == Lt(pivot, s[p + 1])
        l2 == IF lt.v THEN l ELSE p + 1
        r2 == IF lt.v THEN p ELSE r
    IN  IF lt.raised THEN -1
        ELSE IF l2 < r2 THEN Bisect(s, pivot, l2, r2)
        ELSE l2

InsertAt(s, at, e) ==
    [i \in 1 .. Len(s) + 1 |->
        IF i <= at THEN s[i] ELSE IF i = at + 1 THEN e ELSE s[i - 1]]

\* s[1 .. start] is sorted; place s[start + 1 ..] one at a time.
RECURSIVE BinarySort(_, _)
BinarySort(s, start) ==
    IF start = Len(s) THEN [raised |-> FALSE, list |-> s]
    ELSE LET head == SubSeq(s, 1, start)
             at == Bisect(head, s[start + 1], 0, start)
         IN  IF at = -1 THEN [raised |-> TRUE, list |-> <<>>]
             ELSE BinarySort(InsertAt(head, at, s[start + 1])
                                 \o SubSeq(s, start + 2, Len(s)),
                             start + 1)

Sorted(s) ==
    IF Len(s) < 2 THEN [raised |-> FALSE, list |-> s]
    ELSE LET first == Lt(s[2], s[1])
             n == RunLength(s, 2, first.v)
             run == IF first.v THEN Reverse(SubSeq(s, 1, n))
                    ELSE SubSeq(s, 1, n)
         IN  IF first.raised \/ n = 0 THEN [raised |-> TRUE, list |-> <<>>]
             ELSE BinarySort(run \o SubSeq(s, n + 1, Len(s)), n)

------------------------------------------------------------------------------
(* MetaEnum *)

\* What a call hands back: the exception raised ("none" when it returns),
\* the message or string, the constant, the plain value, the list, the truth.
Outcome(raised, text, const, value, list, flag) ==
    [raised |-> raised, text |-> text, const |-> const, value |-> value,
     list |-> list, flag |-> flag]
Returns == Outcome("none", <<>>, NoneObject, NoneV, <<>>, FALSE)
Raises(exception, message) ==
    Outcome(exception, message, NoneObject, NoneV, <<>>, FALSE)

NonSpecial(classdict) == SelectSeq(classdict, LAMBDA e : ~is_special(e.key))

\* __new__: the class number index, named name, built from the namespace;
\* its constants are the objects firstId, firstId + 1, ...
New(classdict, name, index, firstId) ==
    LET entries == NonSpecial(classdict)
    IN  [name |-> name,
         dict |-> classdict,
         members |->
            [i \in 1 .. Len(entries) |->
                EnumConstant(firstId + i - 1, index, entries[i].key, name,
                             entries[i].value, entries[i].implicit_value)]]

\* __prepare__, followed by the stores every class body starts with:
\* __module__ = __name__ and __qualname__ = '<name>'.
Prepare ==
    LET ns0 == <<>>
        counter == 0
        name == NsGetItem(ns0, counter, NameKey)
        mod == NsSetItem(name.namespace, name.sequence, ModuleKey, name.out)
    IN  NsSetItem(mod.namespace, mod.sequence, QualnameKey, StrV)

\* class Enum(EnumConstant, metaclass=MetaEnum): pass
EnumName == <<"E", "n", "u", "m">>
EnumBase == New(Prepare.namespace, EnumName, 1, 1)

MemberOf(type, name) == \E i \in 1 .. Len(type.members) :
                            type.members[i].name = name
Member(type, name) ==
    type.members[CHOOSE i \in 1 .. Len(type.members) :
                    type.members[i].name = name]

\* __iter__
Iter(type) ==
    LET sorted == Sorted(type.members)
    IN  IF sorted.raised
        THEN Raises("TypeError", <<"'<' not supported">>)
        ELSE [Returns EXCEPT !.list = sorted.list]

\* __getattribute__
GetAttribute(type, attribute) ==
    IF is_special(attribute)
    THEN IF attribute = MembersKey
         THEN [Returns EXCEPT !.list = type.members]
         ELSE IF DictHas(type.dict, attribute)
         THEN [Returns EXCEPT !.value = DictGet(type.dict, attribute).value]
         ELSE Raises("AttributeError",
                     <<"type object has no attribute ">> \o attribute)
    ELSE IF MemberOf(type, attribute)
         THEN [Returns EXCEPT !.const = Member(type, attribute)]
         ELSE Raises("AttributeError",
                     <<"Enum constant not found: ">> \o type.name
                         \o <<".">> \o attribute)

\* A variant of __getitem__ that reads the registry itself, with the
\* KeyError of a mapping for a name it lacks.
GetItemRegistry(type, value) ==
    IF MemberOf(type, value)
    THEN [Returns EXCEPT !.const = Member(type, value)]
    ELSE Raises("KeyError", value)

\* __getitem__
GetItem(type, value) == GetAttribute(type, value)

\* A variant of __setattr__ without the lock: every assignment is stored.
SetAttrUnlocked(type, key, value) ==
    [type |-> [type EXCEPT !.dict = DictSet(type.dict, Raw(key, value))],
     out |-> Returns]

\* __setattr__: the class afterwards and what the assignment hands back.
SetAttr(type, key, value) ==
    IF is_special(key)
    THEN [type |-> [type EXCEPT !.dict = DictSet(@, Raw(key, value))],
          out |-> Returns]
    ELSE [type |-> type,
          out |-> Raises("AttributeError",
                         <<"Can't set attributes on an Enum!">>)]

\* "del Colour.red". MetaEnum defines no __delattr__, so the one of type
\* runs: it removes the entry of the class __dict__, which __new__ filled
\* from the namespace, and raises AttributeError when there is none.
DelAttr(type, key) ==
    IF DictHas(type.dict, key)
    THEN [type |-> [type EXCEPT !.dict =
                        SelectSeq(@, LAMBDA e : e.key # key)],
          out |-> Returns]
    ELSE [type |-> type,
          out |-> Raises("AttributeError",
                         <<"type object has no attribute ">> \o key)]

------------------------------------------------------------------------------
(* EnumConstant.__next__ *)

NotScanning == [active |-> FALSE, self |-> NoneObject, list |-> <<>>, at |-> 0]

\* Lines 40-44: the cycle over the class and the two-item window on it. The
\* window is at its start (at = 0, this is None) or has this = list[at].
NextEnter(self, type) ==
    LET enum_values == Iter(type)
    IN  IF enum_values.raised # "none"
        THEN [scan |-> NotScanning, out |-> enum_values]
        ELSE [scan |-> [active |-> TRUE, self |-> self,
                        list |-> enum_values.list, at |-> 0],
              out |-> Returns]

\* A variant of the loop whose window lags: it hands back this, not next_.
NextLoopLagging(loop) ==
    LET n == Len(loop.list)
        this == IF loop.at = 0 THEN NoneObject ELSE loop.list[loop.at]
    IN  IF n = 0
        THEN [scan |-> NotScanning,
              out |-> Raises("AttributeError",
                             <<"Something went badly wrong!">>)]
        ELSE IF Eq(this, loop.self)
        THEN [scan |-> NotScanning, out |-> [Returns EXCEPT !.const = this]]
        ELSE [scan |-> [loop EXCEPT !.at = (loop.at % n) + 1],
              out |-> Returns]

\* Lines 47-56: one turn of the for loop. zip ends, and the else branch
\* raises, only when the cycle is empty; the cycle of a class with members
\* never ends.
NextLoop(loop) ==
    LET n == Len(loop.list)
        this == IF loop.at = 0 THEN NoneObject ELSE loop.list[loop.at]
        following == (loop.at % n) + 1
    IN  IF n = 0
        THEN [scan |-> NotScanning,
              out |-> Raises("AttributeError",
                             <<"Something went badly wrong!">>)]
        ELSE IF Eq(this, loop.self)
        THEN [scan |-> NotScanning,
              out |-> [Returns EXCEPT !.const = loop.list[following]]]
        ELSE [scan |-> [loop EXCEPT !.at = following], out |-> Returns]

\* next(self) run for at most fuel turns of its loop: what it hands back,
\* or "running" when it has not ended by then.
RECURSIVE NextRun(_, _)
NextRun(loop, fuel) ==
    IF fuel = 0 THEN Raises("running", <<>>)
    ELSE LET turn == NextLoop(loop)
         IN  IF turn.scan.active THEN NextRun(turn.scan, fuel - 1)
             ELSE turn.out

NextOf(self, type) ==
    LET enter == NextEnter(self, type)
    IN  IF enter.scan.active
        THEN NextRun(enter.scan, Len(type.members) + 2)
        ELSE enter.out

------------------------------------------------------------------------------
(* The program: class statements, then calls on the classes they made *)

\* Ordinals a finished body drew: its last one is held by some member.
RECURSIVE MaxOrdinal(_)
MaxOrdinal(members) ==
    IF members = <<>> THEN -1
    ELSE LET rest == MaxOrdinal(Tail(members))
             v == Head(members).implicit_value
         IN  IF v > rest THEN v ELSE rest

RECURSIVE DrawnBy(_)
DrawnBy(ts) ==
    IF ts = <<>> THEN 0
    ELSE MaxOrdinal(Head(ts).members) + 1 + DrawnBy(Tail(ts))

Drawn == sequence + DrawnBy(types)

\* The objects allocated so far are numbered 1 .. LastId.
RECURSIVE LastMemberId(_)
LastMemberId(ts) ==
    IF ts = <<>> THEN 0
    ELSE LET rest == LastMemberId(Tail(ts))
             m == Head(ts).members
             v == IF m = <<>> THEN 0 ELSE m[Len(m)].id
         IN  IF v > rest THEN v ELSE rest
LastId == IF stray.id > LastMemberId(types) THEN stray.id
          ELSE LastMemberId(types)

\* Member names are interchangeable for the code, which inspects a name only
\* for its leading underscore and for a binding in the enclosing frame: a
\* body takes its new names in the order of Letters.
BodyNames ==
    LET n == Len(NonSpecial(namespace))
    IN  {MemberName(i) : i \in 1 .. (IF n < Len(Letters) THEN n + 1 ELSE n)}
FrameNames == {f_locals[i].key : i \in 1 .. Len(f_locals)}
                \cup {f_globals[i].key : i \in 1 .. Len(f_globals)}

\* A call on class number type with the name key, and what it handed back;
\* a call on a constant or with a second constant names it in other.
Nobody == [type |-> 0, key |-> <<>>, id |-> 0]
Call2(op, type, key, other, out) ==
    [op |-> op, type |-> type, key |-> key, other |-> other, out |-> out]
Call(op, type, key, out) == Call2(op, type, key, Nobody, out)

\* magic_enum has been imported: class Enum exists.
Init ==
    /\ namespace = <<>>
    /\ sequence = 0
    /\ body = 0
    /\ types = <<EnumBase>>
    /\ assigned = <<{}>>
    /\ stray = NoneObject
    /\ scan = NotScanning
    /\ result = Call("import", 1, <<>>, Returns)

\* No class body and no call is being executed.
Ready == body = 0 /\ ~scan.active

\* "class <name>(Enum):" is reached, for the first n class statements.
ClassStatement(n) ==
    /\ Ready
    /\ Len(types) <= n
    /\ body' = Len(types) + 1
    /\ namespace' = Prepare.namespace
    /\ sequence' = Prepare.sequence
    /\ assigned' = Append(assigned, {})
    /\ result' = Call("prepare", Len(types) + 1, <<>>, Returns)
    /\ UNCHANGED <<types, stray, scan>>

\* A bare name in the body: the namespace's __getitem__.
Mention(key) ==
    /\ body # 0
    /\ LET r == NsGetItem(namespace, sequence, key)
       IN  /\ Drawn + (r.sequence - sequence) <= MaxMentions
           /\ namespace' = r.namespace
           /\ sequence' = r.sequence
           /\ assigned' = [assigned EXCEPT ![body] =
                              IF r.sequence = sequence THEN @ ELSE @ \ {key}]
           /\ result' = Call("ns_getitem", body, key,
                             [Returns EXCEPT !.value = r.out])
    /\ UNCHANGED <<body, types, stray, scan>>

\* "key = value" in the body: the namespace's __setitem__.
Assign(key, value) ==
    /\ body # 0
    /\ LET r == NsSetItem(namespace, sequence, key, value)
       IN  /\ Drawn + (r.sequence - sequence) <= MaxMentions
           /\ namespace' = r.namespace
           /\ sequence' = r.sequence
           /\ assigned' = [assigned EXCEPT ![body] = @ \cup {key}]
           /\ result' = Call("ns_setitem", body, key, Returns)
    /\ UNCHANGED <<body, types, stray, scan>>

\* The body ends: MetaEnum.__new__ makes the class.
EndClass ==
    /\ body # 0
    /\ types' = Append(types, New(namespace, Statements[body - 1], body,
                                  LastId + 1))
    /\ body' = 0
    /\ namespace' = <<>>
    /\ sequence' = 0
    /\ result' = Call("new", body, <<>>, Returns)
    /\ UNCHANGED <<assigned, stray, scan>>

\* The class statements a program of at most n of them executes.
Declare(n) ==
    \/ ClassStatement(n)
    \/ \E key \in BodyNames \cup FrameNames : Mention(key)
    \/ \E key \in BodyNames, value \in Literals : Assign(key, value)
    \/ EndClass

\* The calls that leave every object as it is, as does any call that raises.
\* A run of such calls reaches no state that its last call does not reach
\* alone, so one is taken only after a step that had an effect.
Reads == {"getattribute", "getitem", "eq", "iter", "str", "lt", "gt"}
Effective == result.op \notin Reads /\ result.out.raised \in {"none", "running"}
Idle == Ready /\ Effective

Classes == 1 .. Len(types)
MemberNames(t) == {types[t].members[i].name : i \in 1 .. Len(types[t].members)}
\* The names a caller uses on a class: its members, a name it lacks and a
\* reserved name.
CallNames(t) ==
    MemberNames(t) \cup {MemberName(Len(types[t].members) + 1), TagKey}

objects == <<namespace, sequence, body, types, assigned, stray, scan>>

\* Colour.red
GetAttributeCall(t, attribute) ==
    /\ Idle
    /\ result' = Call("getattribute", t, attribute,
                      GetAttribute(types[t], attribute))
    /\ UNCHANGED objects

\* Colour["red"]
GetItemCall(t, value) ==
    /\ Idle
    /\ result' = Call("getitem", t, value, GetItem(types[t], value))
    /\ UNCHANGED objects

\* E1.n1 == E2.n2
EqCall(t1, n1, t2, n2) ==
    /\ Idle
    /\ LET other == GetAttribute(types[t2], n2).const
       IN  result' = Call2("eq", t1, n1,
                           [type |-> t2, key |-> n2, id |-> other.id],
                           [Returns EXCEPT !.flag =
                                Eq(GetAttribute(types[t1], n1).const, other)])
    /\ UNCHANGED objects

\* list(Colour)
IterCall(t) ==
    /\ Idle
    /\ result' = Call("iter", t, <<>>, Iter(types[t]))
    /\ UNCHANGED objects

\* str(Colour.red)
StrCall(t, n) ==
    /\ Idle
    /\ result' = Call("str", t, n,
                      [Returns EXCEPT !.text = Str(Member(types[t], n))])
    /\ UNCHANGED objects

Compared(lt) ==
    IF lt.raised THEN Raises("TypeError", <<"'<' not supported">>)
    ELSE [Returns EXCEPT !.flag = lt.v]

\* Colour.red < Colour.blue
LtCall(t, n1, n2) ==
    /\ Idle
    /\ LET other == Member(types[t], n2)
       IN  result' = Call2("lt", t, n1,
                           [type |-> t, key |-> n2, id |-> other.id],
                           Compared(Lt(Member(types[t], n1), other)))
    /\ UNCHANGED objects

\* Colour.red > Colour.blue
GtCall(t, n1, n2) ==
    /\ Idle
    /\ LET other == Member(types[t], n2)
       IN  result' = Call2("gt", t, n1,
                           [type |-> t, key |-> n2, id |-> other.id],
                           Compared(Gt(Member(types[t], n1), other)))
    /\ UNCHANGED objects

Observations ==
    \/ \E t \in Classes : \E n \in CallNames(t) \cup {MembersKey} :
        GetAttributeCall(t, n)
    \/ \E t \in Classes : \E n \in CallNames(t) \cup {MembersKey} :
        GetItemCall(t, n)
    \/ \E t1 \in Classes, t2 \in Classes :
        \E n1 \in MemberNames(t1), n2 \in MemberNames(t2) :
            EqCall(t1, n1, t2, n2)
    \/ \E t \in Classes : IterCall(t)
    \/ \E t \in Classes : \E n \in MemberNames(t) : StrCall(t, n)
    \/ \E t \in Classes : \E n1 \in MemberNames(t), n2 \in MemberNames(t) :
        LtCall(t, n1, n2)
    \/ \E t \in Classes : \E n1 \in MemberNames(t), n2 \in MemberNames(t) :
        GtCall(t, n1, n2)

\* Colour.green = "Hello, world!". Rebinding the registry _members itself is
\* left out: the properties below are about a class with the built registry.
SetAttrCall(t, key, value) ==
    /\ Ready
    /\ LET r == SetAttr(types[t], key, value)
       IN  /\ r.out.raised # "none" => Effective
           /\ types' = [types EXCEPT ![t] = r.type]
           /\ result' = Call("setattr", t, key, r.out)
    /\ UNCHANGED <<namespace, sequence, body, assigned, stray, scan>>

\* del Colour.green
DelAttrCall(t, key) ==
    /\ Ready
    /\ LET r == DelAttr(types[t], key)
       IN  /\ r.out.raised # "none" => Effective
           /\ types' = [types EXCEPT ![t] = r.type]
           /\ result' = Call("delattr", t, key, r.out)
    /\ UNCHANGED <<namespace, sequence, body, assigned, stray, scan>>

\* The classes the program declared.
Declared == 2 .. Len(types)
\* The names a caller deletes: the first member, which stands for any, and
\* a name the class lacks.
DelNames(t) == {MemberName(1), MemberName(Len(types[t].members) + 1)}

Mutations ==
    \/ \E t \in Declared : \E key \in CallNames(t) :
        SetAttrCall(t, key, StrV)
    \/ \E t \in Declared : \E key \in DelNames(t) : DelAttrCall(t, key)

\* c = Colour(name=..., enum=..., value=None, implicit_value=0): the caller
\* makes an instance by calling the class; no registry holds it.
Construct(t, name) ==
    /\ Ready
    /\ stray = NoneObject
    /\ stray' = EnumConstant(LastId + 1, t, name, types[t].name, NoneV, 0)
    /\ result' = Call2("construct", t, name,
                       [type |-> t, key |-> name, id |-> LastId + 1],
                       Returns)
    /\ UNCHANGED <<namespace, sequence, body, types, assigned, scan>>

\* The constants a caller holds: the members of the classes and the instance
\* it made itself.
Held ==
    UNION {{types[t].members[i] : i \in 1 .. Len(types[t].members)} :
              t \in Classes}
    \cup (IF stray = NoneObject THEN {} ELSE {stray})

\* next(self) is called and runs up to its loop.
NextCall(self) ==
    /\ Ready
    /\ LET r == NextEnter(self, types[self.type])
       IN  /\ scan' = r.scan
           /\ result' = Call2("next", self.type, self.name,
                              [type |-> self.type, key |-> self.name,
                               id |-> self.id],
                              IF r.scan.active THEN Raises("running", <<>>)
                              ELSE r.out)
    /\ UNCHANGED <<namespace, sequence, body, types, assigned, stray>>

\* One turn of the loop of the running next(self).
NextStep ==
    /\ scan.active
    /\ LET r == NextLoop(scan)
       IN  /\ scan' = r.scan
           /\ result' = [result EXCEPT !.out =
                            IF r.scan.active THEN @ ELSE r.out]
    /\ UNCHANGED <<namespace, sequence, body, types, assigned, stray>>

Advances ==
    \/ \E t \in Classes : Construct(t, MemberName(1))
    \/ \E self \in Held : NextCall(self)
    \/ NextStep

\* Two class statements, then the constants are looked up, listed, shown
\* and compared.
Next == Declare(2) \/ Observations
Spec == Init /\ [][Next]_vars

\* One class statement, then attributes of the classes are set and deleted.
MutNext == Declare(1) \/ Mutations
MutSpec == Init /\ [][MutNext]_vars

\* One class statement, then constants are advanced. A call that has begun
\* goes on running: nothing else runs in a single-threaded program.
AdvanceNext == Declare(1) \/ Advances
AdvanceSpec == Init /\ [][AdvanceNext]_vars
FairAdvanceSpec == AdvanceSpec /\ WF_vars(NextStep)

------------------------------------------------------------------------------
(* Claims *)

Members(t) == types[t].members
AllInt(ms) == \A i \in 1 .. Len(ms) : ms[i].value.k = "int"
NoInt(ms) == \A i \in 1 .. Len(ms) : ms[i].value.k # "int"
AllNone(ms) == \A i \in 1 .. Len(ms) : ms[i].value = NoneV
SameObjects(s1, s2) ==
    /\ Len(s1) = Len(s2)
    /\ \A i \in 1 .. Len(s1) : \E j \in 1 .. Len(s2) : s2[j] = s1[i]
    /\ \A i, j \in 1 .. Len(s1) : i # j => s1[i].id # s1[j].id
\* The position of the object numbered id in the list, 0 when it is absent.
Position(list, id) ==
    IF \E i \in 1 .. Len(list) : list[i].id = id
    THEN CHOOSE i \in 1 .. Len(list) : list[i].id = id
    ELSE 0

\* C1: looked-up constants are equal exactly when they are the same member
\* of the same class: E1.n1 == E2.n2 iff E1 is E2 and n1 = n2, whatever
\* names and values the classes share.
C1_EqualIffSameMember ==
    /\ \A t1 \in Classes, t2 \in Classes :
        \A n1 \in MemberNames(t1), n2 \in MemberNames(t2) :
            Eq(GetAttribute(types[t1], n1).const,
               GetAttribute(types[t2], n2).const)
                <=> (t1 = t2 /\ n1 = n2)
    /\ result.op = "eq" =>
        (result.out.flag
            <=> (result.type = result.other.type
                    /\ result.key = result.other.key))

\* C1 witness: two classes share a member name with the same value, and the
\* comparison of the two constants came out unequal.
C1_Witness ==
    /\ result.op = "eq"
    /\ result.type # result.other.type
    /\ result.key = result.other.key
    /\ Member(types[result.type], result.key).value
        = Member(types[result.other.type], result.key).value
    /\ ~result.out.flag

\* C2: iterating a class yields its declared members, each once: ascending
\* by value when every member has an integer value, in declaration order
\* (the order of the registry, that of first mention) when none has.
C2_IterationOrder ==
    result.op = "iter" =>
        LET ms == Members(result.type)
            list == result.out.list
        IN  /\ AllInt(ms) =>
                /\ result.out.raised = "none"
                /\ SameObjects(list, ms)
                /\ \A i \in 1 .. Len(list) - 1 :
                    list[i].value.n <= list[i + 1].value.n
            /\ NoInt(ms) =>
                /\ result.out.raised = "none"
                /\ list = ms

\* C3: assigning to a name that is not reserved raises AttributeError, and
\* every lookup and the iteration of every class give afterwards what they
\* gave before.
C3_SetAttrRejected ==
    [][(result'.op = "setattr" /\ ~is_special(result'.key)) =>
        /\ result'.out.raised = "AttributeError"
        /\ result'.out.text = <<"Can't set attributes on an Enum!">>
        /\ \A t \in Classes :
            /\ Iter(types'[t]) = Iter(types[t])
            /\ \A n \in CallNames(t) \cup {MembersKey} :
                /\ GetAttribute(types'[t], n) = GetAttribute(types[t], n)
                /\ GetItem(types'[t], n) = GetItem(types[t], n)]_vars

\* C3 witness: an assignment to an existing member of a class with two
\* members or more was rejected.
C3_Witness ==
    /\ result.op = "setattr"
    /\ MemberOf(types[result.type], result.key)
    /\ Len(Members(result.type)) >= 2
    /\ result.out.raised = "AttributeError"

\* C4: an attempt to delete a member of a built class always fails with
\* AttributeError; none completes without an error.
C4_DeleteRejected ==
    (result.op = "delattr" /\ MemberOf(types[result.type], result.key))
        => result.out.raised = "AttributeError"

RECURSIVE NextTimes(_, _, _)
NextTimes(self, type, k) ==
    IF k = 0 THEN self
    ELSE NextTimes(NextOf(self, type).const, type, k - 1)

\* C5: where a class iterates, next(c) of a member c returns the member
\* after c in the iteration order, the first one after the last, and as
\* many calls as the class has members lead back to c; a call that returned
\* returned that member.
C5_CyclicSuccessor ==
    /\ \A t \in Classes :
        LET it == Iter(types[t])
            n == Len(it.list)
        IN  it.raised = "none" =>
                \A i \in 1 .. n :
                    /\ NextOf(it.list[i], types[t])
                        = [Returns EXCEPT !.const = it.list[(i % n) + 1]]
                    /\ NextTimes(it.list[i], types[t], n) = it.list[i]
    /\ (result.op = "next" /\ result.out.raised = "none") =>
        LET list == Iter(types[result.type]).list
            i == Position(list, result.other.id)
        IN  /\ i # 0
            /\ result.out.const = list[(i % Len(list)) + 1]

\* C5 witness: next() of the last of three members in iteration order, which
\* is not the declaration order, returned the first.
C5_Witness ==
    /\ result.op = "next"
    /\ result.out.raised = "none"
    /\ LET list == Iter(types[result.type]).list
       IN  /\ Len(list) = 3
           /\ list # Members(result.type)
           /\ result.other.id = list[3].id
           /\ result.out.const = list[1]

\* C6: indexing and dotted access agree for every name: for a member both
\* return the registered constant, for any other unreserved name both raise
\* AttributeError naming the class and the name.
C6_IndexingAsAttribute ==
    /\ \A t \in Classes : \A n \in CallNames(t) \cup {MembersKey} :
        LET dotted == GetAttribute(types[t], n)
            indexed == GetItem(types[t], n)
        IN  /\ indexed = dotted
            /\ (~is_special(n) /\ MemberOf(types[t], n)) =>
                (indexed.raised = "none"
                    /\ indexed.const = Member(types[t], n))
            /\ (~is_special(n) /\ ~MemberOf(types[t], n)) =>
                (indexed.raised = "AttributeError"
                    /\ indexed.text = <<"Enum constant not found: ">>
                            \o types[t].name \o <<".">> \o n)
    /\ result.op \in {"getitem", "getattribute"} =>
        /\ result.out = GetAttribute(types[result.type], result.key)
        /\ result.out = GetItem(types[result.type], result.key)

\* C6 witness: indexing a class that has members with a name it lacks
\* raised AttributeError.
C6_Witness ==
    /\ result.op = "getitem"
    /\ Len(Members(result.type)) >= 1
    /\ ~is_special(result.key)
    /\ ~MemberOf(types[result.type], result.key)
    /\ result.out.raised = "AttributeError"

\* C7: a member shows as "Type.member", followed by "(value=<repr>)"
\* exactly when the author assigned it a value.
C7_ValueShownIffAssigned ==
    result.op = "str" =>
        LET c == Member(types[result.type], result.key)
            plain == types[result.type].name \o <<".">> \o result.key
        IN  result.out.text =
                IF result.key \in assigned[result.type]
                THEN plain \o <<"(value=">> \o Repr(c.value) \o <<")">>
                ELSE plain

\* C8: a name keeps the ordinal of its first mention: no later mention or
\* assignment in the body gives it another one.
C8_OrdinalKept ==
    [][(body # 0 /\ body' = body) =>
        \A i \in 1 .. Len(namespace) :
            namespace[i].isnv =>
                namespace'[i].implicit_value = namespace[i].implicit_value
      ]_vars

\* C9: in a class whose members all have integer values, or all have none,
\* < is a total order: transitive, exactly one of a < b and b < a holds for
\* distinct members, and a > b and b > a never both hold.
C9_TotalOrder ==
    result.op \in {"lt", "gt"} =>
        LET ms == Members(result.type)
            n == Len(ms)
        IN  (AllInt(ms) \/ AllNone(ms)) =>
                /\ \A i, j \in 1 .. n :
                    i # j =>
                        /\ Lt(ms[i], ms[j]).v # Lt(ms[j], ms[i]).v
                        /\ ~(Gt(ms[i], ms[j]).v /\ Gt(ms[j], ms[i]).v)
                /\ \A i, j, k \in 1 .. n :
                    (Lt(ms[i], ms[j]).v /\ Lt(ms[j], ms[k]).v)
                        => Lt(ms[i], ms[k]).v

\* C10: next(c) always ends: a call that has begun returns or raises.
C10_NextTerminates == scan.active ~> ~scan.active

====
